---- MODULE Spec2Model ----
(***************************************************************************)
(* A model of rbc-statement-parser/main.py: the account-resolution cascade *)
(* (extract_account_from_pdf, extract_account_info), parse_pdf and the     *)
(* batch loop, sort and rendering of main.                                 *)
(*                                                                         *)
(* Python strings are TLA+ strings; s[a:b] is Slice(s, a+1, b).  None is    *)
(* the empty tuple and a value v that may be None is the 1-tuple <<v>>, so *)
(* that None, "" and a non-empty string stay three different things, as    *)
(* they are for Python's `not x`.                                          *)
(***************************************************************************)
EXTENDS Integers, Sequences, FiniteSets, TLC

----------------------------------------------------------------------------
(* Python values and string primitives                                     *)

None == <<>>

Some(v) == <<v>>

\* Python truthiness of an optional string: None and "" are falsy.
Truthy(v) == v # None /\ v # Some("")

MinOf(S) == CHOOSE i \in S : \A j \in S : i <= j

\* s[a-1:b] with Python's clamping of out-of-range bounds.
Slice(s, a, b) ==
  LET hi == IF b > Len(s) THEN Len(s) ELSE b
  IN  IF a < 1 \/ a > hi THEN "" ELSE SubSeq(s, a, hi)

Ch(s, i) == Slice(s, i, i)

UPPER == "ABCDEFGHIJKLMNOPQRSTUVWXYZ"

LOWERCASE == "abcdefghijklmnopqrstuvwxyz"

UpperSet == {Ch(UPPER, k) : k \in 1..Len(UPPER)}

LowerTab == [c \in UpperSet |-> Ch(LOWERCASE, CHOOSE k \in 1..Len(UPPER) : Ch(UPPER, k) = c)]

LowerCh(c) == IF c \in UpperSet THEN LowerTab[c] ELSE c

\* the characters a..b of s, each lower-cased (halving keeps the recursion shallow)
RECURSIVE LowerRange(_, _, _)
LowerRange(s, a, b) ==
  IF a > b THEN ""
  ELSE IF a = b THEN LowerCh(Ch(s, a))
  ELSE LET m == (a + b) \div 2 IN LowerRange(s, a, m) \o LowerRange(s, m + 1, b)

\* str.lower()
Lower(s) == LowerRange(s, 1, Len(s))

\* p in s
Contains(s, p) == \E i \in 1..(Len(s) - Len(p) + 1) : SubSeq(s, i, i + Len(p) - 1) = p

\* the regular-expression classes \d and \s
Digit == {"0", "1", "2", "3", "4", "5", "6", "7", "8", "9"}

WS == {" ", "\t", "\n", "\r", "\f"}

IsDigits(s, n) == Len(s) = n /\ \A t \in 1..n : Ch(s, t) \in Digit

\* the index after the longest run of characters of class C that starts at i
RECURSIVE RunEnd(_, _, _)
RunEnd(s, i, C) == IF i <= Len(s) /\ Ch(s, i) \in C THEN RunEnd(s, i + 1, C) ELSE i

\* the index after the longest run of characters outside class C that starts at i
RECURSIVE RunEndNot(_, _, _)
RunEndNot(s, i, C) == IF i <= Len(s) /\ Ch(s, i) \notin C THEN RunEndNot(s, i + 1, C) ELSE i

\* the index of the last character of s outside class C (0 if none), at or before i
RECURSIVE LastNot(_, _, _)
LastNot(s, i, C) == IF i >= 1 /\ Ch(s, i) \in C THEN LastNot(s, i - 1, C) ELSE i

\* str.strip()
Strip(s) == Slice(s, RunEnd(s, 1, WS), LastNot(s, Len(s), WS))

\* str.split()[0] if str.split() else None
FirstToken(s) ==
  LET i == RunEnd(s, 1, WS)
  IN  IF i > Len(s) THEN None ELSE Some(Slice(s, i, RunEndNot(s, i, WS) - 1))

\* os.path.basename
Basename(path) ==
  LET slashes == {i \in 1..Len(path) : Ch(path, i) = "/"}
  IN  IF slashes = {} THEN path
      ELSE Slice(path, (CHOOSE i \in slashes : \A j \in slashes : j <= i) + 1, Len(path))

----------------------------------------------------------------------------
(* The three regular-expression searches of extract_account_from_pdf       *)

SepChars == WS \cup {":"}

NumChars == Digit \cup {"-"}

\* a match of  account number[:\s]+([0-9-]+)  (IGNORECASE) that starts at i:
\* its group 1, or None.  The classes of the two runs are disjoint, so the
\* greedy runs never give a character back.
AccountNumberAt(text, low, i) ==
  LET a == i + Len("account number")
      b == RunEnd(text, a, SepChars)
      c == RunEnd(text, b, NumChars)
  IN  IF Slice(low, i, a - 1) = "account number" /\ b > a /\ c > b
      THEN Some(Slice(text, b, c - 1))
      ELSE None

\* re.search(r'account number[:\s]+([0-9-]+)', text, re.IGNORECASE): group 1 of
\* the leftmost match, or None
SearchAccountNumber(text) ==
  LET low  == Lower(text)
      hits == {i \in 1..Len(text) : AccountNumberAt(text, low, i) # None}
  IN  IF hits = {} THEN None ELSE AccountNumberAt(text, low, MinOf(hits))

\* a match of  (\d{4})\s+\d{2}\*\*\s+\*\*\*\*\s+(\d{4})  that starts at i: its
\* group 2, or None
MaskedCardAt(text, i) ==
  LET j == RunEnd(text, i + 4, WS)
      k == RunEnd(text, j + 4, WS)
      m == RunEnd(text, k + 4, WS)
  IN  IF /\ IsDigits(Slice(text, i, i + 3), 4)
         /\ j > i + 4
         /\ IsDigits(Slice(text, j, j + 1), 2)
         /\ Slice(text, j + 2, j + 3) = "**"
         /\ k > j + 4
         /\ Slice(text, k, k + 3) = "****"
         /\ m > k + 4
         /\ IsDigits(Slice(text, m, m + 3), 4)
      THEN Some(Slice(text, m, m + 3))
      ELSE None

\* re.search(r'(\d{4})\s+\d{2}\*\*\s+\*\*\*\*\s+(\d{4})', text): group 2 of the
\* leftmost match, or None
SearchMaskedCard(text) ==
  LET hits == {i \in 1..Len(text) : MaskedCardAt(text, i) # None}
  IN  IF hits = {} THEN None ELSE MaskedCardAt(text, MinOf(hits))

\* whether  \s+\d{5}-\d{7}  matches at q
NumberTailAt(text, q) ==
  LET r == RunEnd(text, q, WS)
  IN  /\ r > q
      /\ IsDigits(Slice(text, r, r + 4), 5)
      /\ Ch(text, r + 5) = "-"
      /\ IsDigits(Slice(text, r + 6, r + 12), 7)

\* a match of  (RBC [^\n]+?)\s+\d{5}-\d{7}  (IGNORECASE) that starts at i: its
\* group 1, or None.  The lazy [^\n]+? takes the fewest characters (at least
\* one, none a newline) after which the tail matches.
RbcNameAt(text, low, i) ==
  LET stop == MinOf({q \in (i + 4)..Len(text) : Ch(text, q) = "\n"} \cup {Len(text) + 1})
      ends == {q \in (i + 5)..stop : q <= Len(text) /\ NumberTailAt(text, q)}
  IN  IF Slice(low, i, i + 3) = "rbc " /\ ends # {}
      THEN Some(Slice(text, i, MinOf(ends) - 1))
      ELSE None

\* re.search(r'(RBC [^\n]+?)\s+\d{5}-\d{7}', text, re.IGNORECASE): group 1 of the
\* leftmost match, or None
SearchRbcName(text) ==
  LET low  == Lower(text)
      hits == {i \in 1..Len(text) : RbcNameAt(text, low, i) # None}
  IN  IF hits = {} THEN None ELSE RbcNameAt(text, low, MinOf(hits))

\* re.sub(r'TM$', '', name) on a stripped name
StripTM(name) ==
  IF Slice(name, Len(name) - 1, Len(name)) = "TM" THEN Slice(name, 1, Len(name) - 2) ELSE name

\* re.search(r'^(\d{4})', filename): group 1, or None
SearchLeadingDigits(filename) ==
  IF IsDigits(Slice(filename, 1, 4), 4) THEN Some(Slice(filename, 1, 4)) ELSE None

----------------------------------------------------------------------------
(* extract_account_from_pdf and extract_account_info, stage by stage       *)

\* result = {"type": None, "number": None, "name": None}
EmptyResult == [type |-> None, number |-> None, name |-> None]

HEAD_CHARS == 3000

\* read_pdf(file_path)[:3000]
TextHead(text) == Slice(text, 1, HEAD_CHARS)

\* DetectType with the chequing phrase tested before the savings phrase
DetectType_ChequingFirst(result, pdf_text) ==
  LET low == Lower(pdf_text)
  IN  IF Contains(low, "personal banking account statement")
      THEN [result EXCEPT !.type = Some("chequing")]
      ELSE IF Contains(low, "personal savings account statement")
      THEN [result EXCEPT !.type = Some("savings")]
      ELSE IF Contains(low, "visa") \/ Contains(low, "credit card")
      THEN [result EXCEPT !.type = Some("visa")]
      ELSE result

\* "Detect account type": the if / elif / elif over pdf_text.lower()
DetectType(result, pdf_text) ==
  LET low == Lower(pdf_text)
  IN  IF Contains(low, "personal savings account statement")
      THEN [result EXCEPT !.type = Some("savings")]
      ELSE IF Contains(low, "personal banking account statement")
      THEN [result EXCEPT !.type = Some("chequing")]
      ELSE IF Contains(low, "visa") \/ Contains(low, "credit card")
      THEN [result EXCEPT !.type = Some("visa")]
      ELSE result

\* "Extract account number (for chequing/savings)": runs whatever the type is
ExtractNumber(result, pdf_text) ==
  LET match == SearchAccountNumber(pdf_text)
  IN  IF match # None THEN [result EXCEPT !.number = match] ELSE result

\* "Extract account name (for chequing/savings)": runs whatever the type is
ExtractName(result, pdf_text) ==
  LET match == SearchRbcName(pdf_text)
  IN  IF match # None
      THEN [result EXCEPT !.name = Some(StripTM(Strip(match[1])))]
      ELSE result

\* "For VISA, extract last 4 digits" and result["name"] = "VISA"
VisaLast4(result, pdf_text) ==
  IF result.type = Some("visa")
  THEN LET match == SearchMaskedCard(pdf_text)
       IN  [result EXCEPT !.number = IF match # None THEN match ELSE @,
                          !.name = Some("VISA")]
  ELSE result

\* extract_account_from_pdf; pdf is None when read_pdf raises, and the
\* except clause then returns the result untouched
ExtractAccountFromPdf(pdf) ==
  IF pdf = None THEN EmptyResult
  ELSE LET t == TextHead(pdf[1])
       IN  VisaLast4(ExtractName(ExtractNumber(DetectType(EmptyResult, t), t), t), t)

\* account_type, account_number, account_name = pdf_info[...]
CopyPdfInfo(pdf_info) ==
  [account_type |-> pdf_info.type, account_number |-> pdf_info.number,
   account_name |-> pdf_info.name]

type_mapping ==
  [daily |-> "chequing", savings |-> "savings", student |-> "chequing", chequing |-> "chequing"]

\* TypeFromFilename with no chequing default for a token the table lacks
TypeFromFilename_Unresolved(filename) ==
  IF Contains(Lower(filename), "visa") THEN "visa"
  ELSE LET tok        == FirstToken(filename)
           first_word == IF tok # None THEN Lower(tok[1]) ELSE ""
       IN  IF first_word \in DOMAIN type_mapping THEN type_mapping[first_word] ELSE "unresolved"

\* the filename branch of "If auto-detection fails, fall back to filename"
TypeFromFilename(filename) ==
  IF Contains(Lower(filename), "visa") THEN "visa"
  ELSE LET tok        == FirstToken(filename)
           first_word == IF tok # None THEN Lower(tok[1]) ELSE ""
       IN  IF first_word \in DOMAIN type_mapping THEN type_mapping[first_word] ELSE "chequing"

\* if not account_type: ...
FallbackType(acct, filename) ==
  IF ~Truthy(acct.account_type)
  THEN [acct EXCEPT !.account_type = Some(TypeFromFilename(filename))]
  ELSE acct

\* FallbackNumber with the lower-cased first word as the chequing/savings number
FallbackNumber_LowerToken(acct, filename) ==
  IF Truthy(acct.account_number) THEN acct
  ELSE IF acct.account_type = Some("visa")
  THEN LET match == SearchLeadingDigits(filename)
       IN  IF match # None THEN [acct EXCEPT !.account_number = match] ELSE acct
  ELSE LET tok == FirstToken(filename)
       IN  [acct EXCEPT !.account_number = IF tok = None THEN None ELSE Some(Lower(tok[1]))]

\* if not account_number: ...
FallbackNumber(acct, filename) ==
  IF Truthy(acct.account_number) THEN acct
  ELSE IF acct.account_type = Some("visa")
  THEN LET match == SearchLeadingDigits(filename)
       IN  IF match # None THEN [acct EXCEPT !.account_number = match] ELSE acct
  ELSE [acct EXCEPT !.account_number = FirstToken(filename)]

\* DefaultName with no final else: a chequing account keeps the name it had
DefaultName_NoChequingDefault(acct) ==
  IF Truthy(acct.account_name) THEN acct
  ELSE IF acct.account_type = Some("visa")
  THEN [acct EXCEPT !.account_name =
          IF Truthy(acct.account_number) THEN Some("VISA " \o acct.account_number[1])
          ELSE Some("VISA")]
  ELSE IF acct.account_type = Some("savings")
  THEN [acct EXCEPT !.account_name = Some("Savings")]
  ELSE acct

\* if not account_name: ...
DefaultName(acct) ==
  IF Truthy(acct.account_name) THEN acct
  ELSE IF acct.account_type = Some("visa")
  THEN [acct EXCEPT !.account_name =
          IF Truthy(acct.account_number) THEN Some("VISA " \o acct.account_number[1])
          ELSE Some("VISA")]
  ELSE IF acct.account_type = Some("savings")
  THEN [acct EXCEPT !.account_name = Some("Savings")]
  ELSE [acct EXCEPT !.account_name = Some("Chequing")]

\* extract_account_info
ExtractAccountInfo(path, pdf) ==
  LET filename == Basename(path)
  IN  DefaultName(FallbackNumber(FallbackType(CopyPdfInfo(ExtractAccountFromPdf(pdf)), filename),
                                 filename))

----------------------------------------------------------------------------
(* parse_pdf, the sort and the rendering of main                           *)

\* for tx in transactions: tx["account_number"] = ... tx["source_file"] = file_path
Stamp(txs, account_info, path) ==
  [k \in 1..Len(txs) |->
     [date           |-> txs[k].date,
      description    |-> txs[k].description,
      account_number |-> account_info.account_number,
      account_type   |-> account_info.account_type,
      account_name   |-> account_info.account_name,
      source_file    |-> path]]

\* parse_pdf, given account_info = extract_account_info(file_path): the
\* if / elif / else over the answers of is_chequing and is_visa (each "true",
\* "false" or "raise") and of the extractor that is called (ex.raises, or the
\* list ex.txs), then the stamping loop.  Gives whether the call raises, and
\* the list it returns.
ParsePdf(path, account_info, ic, iv, ex) ==
  LET raise   == [raises |-> TRUE, txs |-> <<>>]
      stamped == [raises |-> FALSE, txs |-> Stamp(ex.txs, account_info, path)]
  IN  IF ic = "raise" THEN raise
      ELSE IF ic = "true" THEN (IF ex.raises THEN raise ELSE stamped)
      ELSE IF iv = "raise" THEN raise
      ELSE IF iv = "true" THEN (IF ex.raises THEN raise ELSE stamped)
      ELSE [raises |-> FALSE, txs |-> <<>>]

\* date.__lt__: calendar dates <<year, month, day>> compare field by field
DateLess(d, e) ==
  \/ d[1] < e[1]
  \/ d[1] = e[1] /\ d[2] < e[2]
  \/ d[1] = e[1] /\ d[2] = e[2] /\ d[3] < e[3]

\* InsertByDate that puts tx before the elements of its own date (not stable)
InsertByDate_BeforeEqual(txs, tx) ==
  LET later == {k \in 1..Len(txs) : ~DateLess(txs[k].date, tx.date)}
      at    == IF later = {} THEN Len(txs) + 1 ELSE MinOf(later)
  IN  SubSeq(txs, 1, at - 1) \o <<tx>> \o SubSeq(txs, at, Len(txs))

\* where sorted() puts tx among the already sorted txs: after every element
\* that is not later than it (sorted is stable)
InsertByDate(txs, tx) ==
  LET later == {k \in 1..Len(txs) : DateLess(tx.date, txs[k].date)}
      at    == IF later = {} THEN Len(txs) + 1 ELSE MinOf(later)
  IN  SubSeq(txs, 1, at - 1) \o <<tx>> \o SubSeq(txs, at, Len(txs))

RECURSIVE SortedFrom(_, _, _)
SortedFrom(txs, k, acc) ==
  IF k > Len(txs) THEN acc ELSE SortedFrom(txs, k + 1, InsertByDate(acc, txs[k]))

\* sorted(transactions, key=lambda tx: tx["date"])
SortedByDate(txs) == SortedFrom(txs, 1, <<>>)

DIGITCHARS == "0123456789"

Pad2(n) == Ch(DIGITCHARS, ((n \div 10) % 10) + 1) \o Ch(DIGITCHARS, (n % 10) + 1)

\* date.isoformat(): YYYY-MM-DD
IsoFormat(d) == Pad2(d[1] \div 100) \o Pad2(d[1] % 100) \o "-" \o Pad2(d[2]) \o "-" \o Pad2(d[3])

\* format_transaction(tx, template, ...): the template fields the model carries
FormatTransaction(tx) == <<tx.date, tx.description>>

\* JsonResult whose processed_files counts every FileResult
JsonResult_CountsEveryFile(fs, frs, txs) ==
  [format       |-> "json",
   transactions |-> [k \in 1..Len(txs) |-> [txs[k] EXCEPT !.date = IsoFormat(@)]],
   file_results |-> frs,
   summary      |-> [total_files        |-> Len(fs),
                     processed_files    |-> Len(frs),
                     total_transactions |-> Len(txs)]]

\* the "json" document: transactions with ISO dates, file_results, summary
JsonResult(fs, frs, txs) ==
  [format       |-> "json",
   transactions |-> [k \in 1..Len(txs) |-> [txs[k] EXCEPT !.date = IsoFormat(@)]],
   file_results |-> frs,
   summary      |-> [total_files        |-> Len(fs),
                     processed_files    |-> Cardinality({k \in 1..Len(frs) : frs[k].processed}),
                     total_transactions |-> Len(txs)]]

\* the "text" output: one formatted line per transaction, then the count line
TextResult(txs) ==
  [format |-> "text",
   lines  |-> [k \in 1..Len(txs) |-> FormatTransaction(txs[k])],
   ok     |-> Len(txs)]

----------------------------------------------------------------------------
(* Inputs                                                                  *)

MaxFragments == 2

MaxStamped == 1

MaxFiles == 2

MaxTotalTx == 3

MaxDate == 2

\* lines a statement's first page may hold
Fragments ==
  << "Personal Savings Account Statement",
     "personal banking account statement",
     "Your VISA statement",
     "Credit Card summary",
     "Account Number: 05172-5163878",
     "RBC High Interest eSavingsTM 05172-5162458",
     "1234 56** **** 7890" >>

RECURSIVE JoinLines(_, _)
JoinLines(fs, k) ==
  IF k > Len(fs) THEN ""
  ELSE Fragments[fs[k]] \o (IF k < Len(fs) THEN "\n" ELSE "") \o JoinLines(fs, k + 1)

\* the texts read_pdf may return: up to MaxFragments lines, in any order
Texts == {JoinLines(fs, 1) : fs \in UNION {[1..n -> 1..Len(Fragments)] : n \in 0..MaxFragments}}

\* what read_pdf may do: raise (None) or return a text
Pdfs == {None} \cup {Some(t) : t \in Texts}

Paths ==
  { "/in/Savings Statement.pdf", "/in/1234 Visa.pdf", "/in/Visa.pdf", "/in/daily banking.pdf",
    "/in/Student Jan.pdf", "/in/chequing 2024.pdf", "/in/statement.pdf", "/in/ ", "/in/" }

Calendar == << <<2023, 12, 31>>, <<2024, 1, 2>>, <<2024, 1, 15>>, <<2024, 2, 1>> >>

Dates == {Calendar[k] : k \in 1..MaxDate}

\* the lists an extractor may return: n transactions, the k-th with description k
RawTxs(n, D) == {[k \in 1..n |-> [date |-> ds[k], description |-> k]] : ds \in [1..n -> D]}

\* what an extractor may do: raise, or return up to max transactions dated in D
ExtractorResults(max, D) ==
  {[raises |-> TRUE, txs |-> <<>>]}
    \cup {[raises |-> FALSE, txs |-> t] : t \in UNION {RawTxs(n, D) : n \in 0..max}}

Answers == {"true", "false", "raise"}

\* the batch's documents: the paths parse_files may list and what read_pdf does on each
BatchPaths == {"/in/Savings Statement.pdf", "/in/1234 Visa.pdf", "/in/scan.pdf"}

DiskPdf(path) ==
  IF path = "/in/Savings Statement.pdf"
  THEN Some("Personal Savings Account Statement\nRBC High Interest eSavingsTM 05172-5162458")
  ELSE IF path = "/in/1234 Visa.pdf" THEN Some("Your VISA statement\n1234 56** **** 7890")
  ELSE None

----------------------------------------------------------------------------
(* State                                                                   *)

VARIABLES
  files,             \* main: the list parse_args returns
  output_format,     \* main: "text" or "json"
  next_file,         \* main: the index in files of the for loop
  file_results,      \* main
  transactions,      \* main
  returned,          \* history: the list parse_pdf returned for each file so far
  raised,            \* history: the indices of the files on which parse_pdf raised
  pc,                \* main: "loop", "parse", "render", "done", "aborted" ("idle": not running)
  out,               \* main: what is printed
  file_path,         \* parse_pdf: its argument
  pdf_doc,           \* parse_pdf: what read_pdf does on file_path
  rpc,               \* parse_pdf: the position in the call ("idle": not running)
  result,            \* extract_account_from_pdf: the result dict
  info,              \* extract_account_info: account_type, account_number, account_name
  file_transactions  \* parse_pdf: the list it returns

mainVars == <<files, output_format, next_file, file_results, transactions, returned, raised, pc, out>>

callVars == <<file_path, pdf_doc, rpc, result, info, file_transactions>>

vars == <<mainVars, callVars>>

NoOutput == [format |-> "none"]

MainIdle ==
  /\ files = <<>> /\ output_format = "text" /\ next_file = 1 /\ file_results = <<>>
  /\ transactions = <<>> /\ returned = <<>> /\ raised = {} /\ pc = "idle" /\ out = NoOutput

CallIdle ==
  /\ file_path = "" /\ pdf_doc = None /\ rpc = "idle" /\ result = EmptyResult
  /\ info = CopyPdfInfo(EmptyResult) /\ file_transactions = <<>>

----------------------------------------------------------------------------
(* main: the loop over the files, the sort and the rendering                *)

Injective(f) == \A a, b \in DOMAIN f : f[a] = f[b] => a = b

\* the state when parse_args has returned: at least one file, no file twice
Init ==
  /\ files \in {f \in UNION {[1..n -> BatchPaths] : n \in 1..MaxFiles} : Injective(f)}
  /\ output_format \in {"text", "json"}
  /\ next_file = 1
  /\ file_results = <<>>
  /\ transactions = <<>>
  /\ returned = <<>>
  /\ raised = {}
  /\ pc = "loop"
  /\ out = NoOutput
  /\ CallIdle

\* the for loop takes the next file and parse_pdf resolves its account
ResolveAccount ==
  /\ pc = "loop"
  /\ next_file <= Len(files)
  /\ file_path' = files[next_file]
  /\ info' = ExtractAccountInfo(files[next_file], DiskPdf(files[next_file]))
  /\ pc' = "parse"
  /\ UNCHANGED <<files, output_format, next_file, file_results, transactions, returned, raised,
                 out, pdf_doc, rpc, result, file_transactions>>

\* the rest of the iteration when parse_pdf returns: the FileResult, the extend
LoopBody ==
  /\ pc = "parse"
  /\ \E ic \in Answers, iv \in Answers,
        ex \in ExtractorResults(MaxTotalTx - Len(transactions), Dates) :
       LET r == ParsePdf(file_path, info, ic, iv, ex)
       IN  /\ ~r.raises
           /\ file_results' = Append(file_results,
                                     [file              |-> file_path,
                                      transaction_count |-> Len(r.txs),
                                      processed         |-> Len(r.txs) > 0])
           /\ transactions' = transactions \o r.txs
           /\ returned' = Append(returned, r.txs)
  /\ next_file' = next_file + 1
  /\ pc' = "loop"
  /\ UNCHANGED <<files, output_format, raised, out, callVars>>

\* the rest of the iteration when parse_pdf raises: nothing in parse_pdf or
\* main catches the exception, so the process ends with it
LoopBodyRaises ==
  /\ pc = "parse"
  /\ \E ic \in Answers, iv \in Answers,
        ex \in ExtractorResults(MaxTotalTx - Len(transactions), Dates) :
       ParsePdf(file_path, info, ic, iv, ex).raises
  /\ raised' = raised \cup {next_file}
  /\ pc' = "aborted"
  /\ UNCHANGED <<files, output_format, next_file, file_results, transactions, returned, out,
                 callVars>>

\* transactions = sorted(transactions, key=lambda tx: tx["date"])
SortTransactions ==
  /\ pc = "loop"
  /\ next_file > Len(files)
  /\ transactions' = SortedByDate(transactions)
  /\ pc' = "render"
  /\ UNCHANGED <<files, output_format, next_file, file_results, returned, raised, out, callVars>>

\* the if output_format == "json" / else that builds out_str, and the print
Render ==
  /\ pc = "render"
  /\ out' = IF output_format = "json" THEN JsonResult(files, file_results, transactions)
            ELSE TextResult(transactions)
  /\ pc' = "done"
  /\ UNCHANGED <<files, output_format, next_file, file_results, transactions, returned, raised,
                 callVars>>

Next == ResolveAccount \/ LoopBody \/ LoopBodyRaises \/ SortTransactions \/ Render

Spec == Init /\ [][Next]_vars

----------------------------------------------------------------------------
(* One call of parse_pdf, statement by statement                           *)

InitCall ==
  /\ MainIdle
  /\ file_path \in Paths
  /\ pdf_doc \in Pdfs
  /\ rpc = "read"
  /\ result = EmptyResult
  /\ info = CopyPdfInfo(EmptyResult)
  /\ file_transactions = <<>>

\* pdf_text = read_pdf(file_path)[:3000]; when it raises, the except clause
\* is next and extract_account_from_pdf returns
ReadPdf ==
  /\ rpc = "read"
  /\ rpc' = IF pdf_doc = None THEN "copy" ELSE "type"
  /\ UNCHANGED <<mainVars, file_path, pdf_doc, result, info, file_transactions>>

DetectTypeStep ==
  /\ rpc = "type"
  /\ result' = DetectType(result, TextHead(pdf_doc[1]))
  /\ rpc' = "number"
  /\ UNCHANGED <<mainVars, file_path, pdf_doc, info, file_transactions>>

ExtractNumberStep ==
  /\ rpc = "number"
  /\ result' = ExtractNumber(result, TextHead(pdf_doc[1]))
  /\ rpc' = "name"
  /\ UNCHANGED <<mainVars, file_path, pdf_doc, info, file_transactions>>

ExtractNameStep ==
  /\ rpc = "name"
  /\ result' = ExtractName(result, TextHead(pdf_doc[1]))
  /\ rpc' = "visa"
  /\ UNCHANGED <<mainVars, file_path, pdf_doc, info, file_transactions>>

VisaLast4Step ==
  /\ rpc = "visa"
  /\ result' = VisaLast4(result, TextHead(pdf_doc[1]))
  /\ rpc' = "copy"
  /\ UNCHANGED <<mainVars, file_path, pdf_doc, info, file_transactions>>

\* pdf_info = extract_account_from_pdf(file_path) and the three assignments
CopyPdfInfoStep ==
  /\ rpc = "copy"
  /\ info' = CopyPdfInfo(result)
  /\ rpc' = "fallback_type"
  /\ UNCHANGED <<mainVars, file_path, pdf_doc, result, file_transactions>>

FallbackTypeStep ==
  /\ rpc = "fallback_type"
  /\ info' = FallbackType(info, Basename(file_path))
  /\ rpc' = "fallback_number"
  /\ UNCHANGED <<mainVars, file_path, pdf_doc, result, file_transactions>>

FallbackNumberStep ==
  /\ rpc = "fallback_number"
  /\ info' = FallbackNumber(info, Basename(file_path))
  /\ rpc' = "default_name"
  /\ UNCHANGED <<mainVars, file_path, pdf_doc, result, file_transactions>>

DefaultNameStep ==
  /\ rpc = "default_name"
  /\ info' = DefaultName(info)
  /\ rpc' = "classify"
  /\ UNCHANGED <<mainVars, file_path, pdf_doc, result, file_transactions>>

\* the rest of parse_pdf, when it returns
ClassifyStep ==
  /\ rpc = "classify"
  /\ \E ic \in Answers, iv \in Answers, ex \in ExtractorResults(MaxStamped, {Calendar[1]}) :
       LET r == ParsePdf(file_path, info, ic, iv, ex)
       IN  ~r.raises /\ file_transactions' = r.txs
  /\ rpc' = "returned"
  /\ UNCHANGED <<mainVars, file_path, pdf_doc, result, info>>

\* the rest of parse_pdf, when is_chequing, is_visa or the extractor raises
ClassifyRaises ==
  /\ rpc = "classify"
  /\ \E ic \in Answers, iv \in Answers, ex \in ExtractorResults(MaxStamped, {Calendar[1]}) :
       ParsePdf(file_path, info, ic, iv, ex).raises
  /\ rpc' = "raised"
  /\ UNCHANGED <<mainVars, file_path, pdf_doc, result, info, file_transactions>>

NextCall ==
  \/ ReadPdf \/ DetectTypeStep \/ ExtractNumberStep \/ ExtractNameStep \/ VisaLast4Step
  \/ CopyPdfInfoStep \/ FallbackTypeStep \/ FallbackNumberStep \/ DefaultNameStep
  \/ ClassifyStep \/ ClassifyRaises

SpecCall == InitCall /\ [][NextCall]_vars

\* the statement-by-statement call computes what the composed operator does
StagesAgree ==
  rpc \in {"classify", "returned", "raised"} => info = ExtractAccountInfo(file_path, pdf_doc)

----------------------------------------------------------------------------
(* Properties of one call of parse_pdf (SpecCall)                          *)

\* extract_account_info has returned
Resolved == rpc \in {"classify", "returned", "raised"}

Filename == Basename(file_path)

\* the lower-cased text head; "" when read_pdf raised
LowHead == IF pdf_doc = None THEN "" ELSE Lower(TextHead(pdf_doc[1]))

HeadHasTypePhrase ==
  \/ Contains(LowHead, "personal savings account statement")
  \/ Contains(LowHead, "personal banking account statement")
  \/ Contains(LowHead, "visa")
  \/ Contains(LowHead, "credit card")

\* C1: whatever the text head (also when its extraction fails) and whatever the
\* filename (also an empty one or one without a token), the account_name that
\* extract_account_info returns is neither None nor "", and so is the
\* account_name of every transaction parse_pdf returns.
C1_AccountNameNeverEmpty ==
  /\ Resolved => (info.account_name # None /\ info.account_name # Some(""))
  /\ rpc = "returned" =>
       \A k \in 1..Len(file_transactions) :
         /\ file_transactions[k].account_name # None
         /\ file_transactions[k].account_name # Some("")

\* every tier fails (no text, no filename token) and a transaction is stamped
C1_Witness ==
  /\ rpc = "returned" /\ pdf_doc = None /\ FirstToken(Filename) = None
  /\ Len(file_transactions) > 0
  /\ file_transactions[1].account_name = Some("Chequing")

C4_Scenario ==
  /\ Resolved
  /\ file_path = "/in/Savings Statement.pdf"
  /\ pdf_doc # None
  /\ ~HeadHasTypePhrase
  /\ SearchAccountNumber(TextHead(pdf_doc[1])) = None
  /\ SearchRbcName(TextHead(pdf_doc[1])) = None

\* C4 as stated: for "Savings Statement.pdf" with a head that matches no type
\* phrase, no account-number line and no RBC header, the type is savings, the
\* number is null and the name is "Savings".
C4_NumberIsNull ==
  C4_Scenario =>
    /\ info.account_type = Some("savings")
    /\ info.account_number = None
    /\ info.account_name = Some("Savings")

\* C4 as amended: in that scenario the type is savings, the name is "Savings"
\* and the number is the filename's first whitespace token, "Savings".
C4_NumberIsFirstToken ==
  C4_Scenario =>
    /\ info.account_type = Some("savings")
    /\ info.account_number = Some("Savings")
    /\ info.account_name = Some("Savings")

C4_Witness == C4_Scenario /\ rpc = "returned" /\ info.account_number = Some("Savings")

\* C5: for "1234 Visa.pdf" and every text head that contains the masked card
\* "1234 56** **** 7890", the number is "7890" (from the content, never the
\* filename's "1234") and the name is "VISA".
C5_MaskedCardWins ==
  ( /\ Resolved
    /\ file_path = "/in/1234 Visa.pdf"
    /\ pdf_doc # None
    /\ Contains(TextHead(pdf_doc[1]), "1234 56** **** 7890") )
  => /\ info.account_number = Some("7890")
     /\ info.account_name = Some("VISA")

\* C7: once a stage has given a field a non-empty value, no later stage
\* replaces it: the value first resolved is the value returned.
C7_NeverOverwritten ==
  [][ /\ Truthy(result.type) => result'.type = result.type
      /\ Truthy(result.number) => result'.number = result.number
      /\ Truthy(result.name) => result'.name = result.name
      /\ rpc = "copy" =>
           /\ Truthy(result.type) => info'.account_type = result.type
           /\ Truthy(result.number) => info'.account_number = result.number
           /\ Truthy(result.name) => info'.account_name = result.name
      /\ Truthy(info.account_type) => info'.account_type = info.account_type
      /\ Truthy(info.account_number) => info'.account_number = info.account_number
      /\ Truthy(info.account_name) => info'.account_name = info.account_name ]_vars

\* the type the filename gives, as C8 words it
C8_FilenameType ==
  LET tok  == FirstToken(Filename)
      word == IF tok = None THEN "" ELSE Lower(tok[1])
  IN  IF Contains(Lower(Filename), "visa") THEN "visa"
      ELSE CASE word = "daily"    -> "chequing"
             [] word = "savings"  -> "savings"
             [] word = "student"  -> "chequing"
             [] word = "chequing" -> "chequing"
             [] OTHER             -> "chequing"

\* C8: the type is the first match of savings phrase, chequing phrase,
\* visa / credit-card phrase in the text head; only when none matches, the
\* filename decides: "visa" anywhere in it (any case) gives visa, else the
\* lower-cased first token is looked up in the table, and any other or
\* missing token gives chequing.
C8_TypeCascade ==
  Resolved =>
    info.account_type =
      Some(IF Contains(LowHead, "personal savings account statement") THEN "savings"
           ELSE IF Contains(LowHead, "personal banking account statement") THEN "chequing"
           ELSE IF Contains(LowHead, "visa") \/ Contains(LowHead, "credit card") THEN "visa"
           ELSE C8_FilenameType)

\* the head holds the visa word before the chequing phrase, the filename says
\* savings: the chequing phrase wins
C8_Witness ==
  /\ Resolved
  /\ file_path = "/in/Savings Statement.pdf"
  /\ pdf_doc = Some("Your VISA statement\npersonal banking account statement")
  /\ info.account_type = Some("chequing")

\* C9: when the resolved type is visa, the number is the trailing group of a
\* masked card found in the text head, else the filename's leading 4 digits,
\* else null: never the capture of an "account number:" line.
C9_VisaNumberSources ==
  (Resolved /\ info.account_type = Some("visa")) =>
    LET card == IF pdf_doc = None THEN None ELSE SearchMaskedCard(TextHead(pdf_doc[1]))
    IN  info.account_number = IF card # None THEN card ELSE SearchLeadingDigits(Filename)

\* C10: the account_type is one of chequing, savings and visa, never null and
\* never "unresolved", also when the text cannot be read and the filename is
\* empty.
C10_TypeIsOneOfThree ==
  rpc \in {"fallback_number", "default_name", "classify", "returned", "raised"} =>
    info.account_type \in {Some("chequing"), Some("savings"), Some("visa")}

C10_Witness == Resolved /\ pdf_doc = None /\ Filename = "" /\ info.account_type = Some("chequing")

----------------------------------------------------------------------------
(* Properties of main (Spec)                                               *)

RECURSIVE Flatten(_, _)
Flatten(lists, k) == IF k > Len(lists) THEN <<>> ELSE lists[k] \o Flatten(lists, k + 1)

\* the per-document lists parse_pdf returned, concatenated in file order
Concatenation == Flatten(returned, 1)

\* the index in transactions of the transaction t
PositionOf(t) == CHOOSE k \in 1..Len(transactions) : transactions[k] = t

\* what is rendered, one entry per transaction
Rendered == IF out.format = "json" THEN out.transactions ELSE out.lines

\* C2: what main renders is a permutation of the concatenation, in file
\* order, of the lists parse_pdf returned, is non-decreasing in date, and
\* keeps transactions of equal date in the order of the concatenation.
C2_StableSortedPermutation ==
  /\ pc \in {"render", "done"} =>
       /\ Len(transactions) = Len(Concatenation)
       /\ \A a \in 1..Len(Concatenation) : \E k \in 1..Len(transactions) :
            transactions[k] = Concatenation[a]
       /\ \A a, b \in 1..Len(transactions) :
            a < b => ~DateLess(transactions[b].date, transactions[a].date)
       /\ \A a, b \in 1..Len(Concatenation) :
            (a < b /\ Concatenation[a].date = Concatenation[b].date)
              => PositionOf(Concatenation[a]) < PositionOf(Concatenation[b])
  /\ pc = "done" =>
       /\ Len(Rendered) = Len(transactions)
       /\ \A k \in 1..Len(transactions) :
            Rendered[k] = IF out.format = "json"
                          THEN [transactions[k] EXCEPT !.date = IsoFormat(@)]
                          ELSE FormatTransaction(transactions[k])

\* two documents, equal dates in both, and an earlier date after them
C2_Witness ==
  /\ pc = "done"
  /\ Len(returned) = 2
  /\ Len(Concatenation) = 3
  /\ transactions # Concatenation
  /\ \E a, b \in 1..3 :
       /\ a < b
       /\ Concatenation[a].date = Concatenation[b].date
       /\ Concatenation[a].source_file # Concatenation[b].source_file

\* the sum of the transaction_counts from the k-th FileResult on
RECURSIVE SumCounts(_, _)
SumCounts(frs, k) == IF k > Len(frs) THEN 0 ELSE frs[k].transaction_count + SumCounts(frs, k + 1)

\* C3: when parse_pdf raises on a document, that document gets a FileResult
\* with no transactions and processed = false, and every later document is
\* still processed: when main ends, every file has its FileResult.
C3_FailureIsNotFatal ==
  pc \in {"done", "aborted"} =>
    /\ Len(file_results) = Len(files)
    /\ \A k \in raised :
         /\ file_results[k].transaction_count = 0
         /\ file_results[k].processed = FALSE

\* C6: when main completes, file_results holds one FileResult per file, in
\* order, with processed = (transaction_count > 0); in the summary,
\* processed_files is the number of FileResults with transaction_count > 0,
\* total_files the number of FileResults, total_transactions the sum of the
\* transaction_counts.
C6_FileResultsAndSummary ==
  pc = "done" =>
    /\ Len(file_results) = Len(files)
    /\ \A k \in 1..Len(files) :
         /\ file_results[k].file = files[k]
         /\ file_results[k].transaction_count = Len(returned[k])
         /\ file_results[k].processed = (file_results[k].transaction_count > 0)
    /\ out.format = "json" =>
         /\ out.summary.processed_files =
              Cardinality({k \in 1..Len(file_results) : file_results[k].transaction_count > 0})
         /\ out.summary.total_files = Len(file_results)
         /\ out.summary.total_transactions = SumCounts(file_results, 1)
         /\ out.file_results = file_results

\* a document that gave nothing next to one that gave transactions
C6_Witness ==
  /\ pc = "done" /\ out.format = "json"
  /\ \E j, k \in 1..Len(file_results) :
       file_results[j].processed /\ ~file_results[k].processed
  /\ out.summary.processed_files = 1

====
